---- MODULE Spec2Model ----
(***************************************************************************)
(* apkit: short-time Fourier transform, frequency-domain upsampling and    *)
(* (generalized) cross correlation, src/apkit/basic.py and src/apkit/cc.py *)
(*                                                                         *)
(* The library is a set of pure functions.  Each function is an operator   *)
(* here; a behaviour draws the arguments of one call (or one chain of      *)
(* calls) in Init and the actions apply the functions.                     *)
(*                                                                         *)
(* Numbers.  A real number r is carried exactly as the integer r * One     *)
(* (fixed point); a complex number is a pair <<re, im>> of such integers.  *)
(* One is chosen so that every literal of the source (0.54, 0.46, 1.08,    *)
(* 2.0) and every division the modelled calls perform is exact on the      *)
(* inputs drawn.  Transform lengths are 1, 2 and 4, for which the DFT      *)
(* twiddle factors are the units 1, -i, -1, i, so fft and ifft are exact.  *)
(* Arrays are sequences; index n of the source is index n + 1 here.        *)
(***************************************************************************)
EXTENDS Integers, Sequences, FiniteSets, TLC

VARIABLES
    pc,     \* the function about to be called, or "<function>_done"
    args,   \* the arguments of the call
    tf,     \* the time-frequency signal held between stft and istft
    ret,    \* what the last call returned or raised
    calls   \* the argument pairs the last call passed to cc_func, in order

vars == <<pc, args, tf, ret, calls>>

(* ---------------------------------------------------------------- bounds *)

\* A time-domain signal holds at most MaxSamples samples (channels * length).
MaxSamples == 8
\* A time-frequency input of istft holds at most MaxBins bins in all.
MaxBins == 8
\* Hop sizes are drawn from 1..MaxHop.
MaxHop == 3
\* Spectra given to freq_upsample have at most MaxSpecLen bins.
MaxSpecLen == 4
\* Upsampling factors are drawn from -1..MaxFactor (and halves in between).
MaxFactor == 3
\* Correlations given to tdoa have at most MaxCorrLen lags.
MaxCorrLen == 5
\* cc_across_time is given at most MaxFrames frames on each side.
MaxFrames == 3
\* pairwise_cc is given at most MaxPairFrames frames in all (channels * frames).
MaxPairFrames == 6

(* ------------------------------------------------------------ arithmetic *)

\* The fixed-point unit: the real number 1.
One == 100 * 54

\* FFT lengths with exact twiddle factors.
FFTSizes == {1, 2, 4}

\* an array with its elements evaluated (a sequence value, not a function expression)
array(f) == f \o <<>>

Min(a, b) == IF a < b THEN a ELSE b

Max(a, b) == IF a > b THEN a ELSE b

AbsInt(a) == IF a < 0 THEN -a ELSE a

\* Python 2 `a / b` on ints: floor division.
IntDiv(a, b) == a \div b

CZero == <<0, 0>>

COne == <<One, 0>>

CAdd(z, w) == <<z[1] + w[1], z[2] + w[2]>>

\* complex * complex, both fixed point
CMul(z, w) == <<(z[1] * w[1] - z[2] * w[2]) \div One, (z[1] * w[2] + z[2] * w[1]) \div One>>

\* integer * complex
IMul(k, z) == <<k * z[1], k * z[2]>>

\* complex / integer (true division)
IDiv(z, k) == <<z[1] \div k, z[2] \div k>>

\* complex / real (fixed point)
RDiv(z, r) == <<(z[1] * One) \div r, (z[2] * One) \div r>>

conj(z) == <<z[1], -z[2]>>

real(z) == z[1]

RECURSIVE SqrtUp(_, _)
\* least r >= lo with r * r >= n
SqrtUp(n, lo) == IF lo * lo >= n THEN lo ELSE SqrtUp(n, lo + 1)

\* np.abs of a complex number: on the axes exactly, elsewhere the root of the norm
CAbs(z) ==
    IF z[2] = 0 THEN AbsInt(z[1])
    ELSE IF z[1] = 0 THEN AbsInt(z[2])
    ELSE SqrtUp(z[1] * z[1] + z[2] * z[2], Max(AbsInt(z[1]), AbsInt(z[2])))

\* exp(-2 pi i e / n) for n in FFTSizes, as an integer pair
Twiddle(n, e) ==
    LET q == (e * (4 \div n)) % 4
    IN  IF q = 0 THEN <<1, 0>>
        ELSE IF q = 1 THEN <<0, -1>>
        ELSE IF q = 2 THEN <<-1, 0>>
        ELSE <<0, 1>>

\* complex * unit
UMul(z, u) == <<z[1] * u[1] - z[2] * u[2], z[1] * u[2] + z[2] * u[1]>>

RECURSIVE CSum(_)
CSum(zs) == IF zs = <<>> THEN CZero ELSE CAdd(zs[1], CSum(Tail(zs)))

\* np.fft.fft of a complex sequence whose length is in FFTSizes
fft(v) ==
    LET n == Len(v)
    IN  array([k \in 1..n |->
                  CSum(array([m \in 1..n |-> UMul(v[m], Twiddle(n, (m - 1) * (k - 1)))]))])

\* np.fft.ifft
ifft(X) ==
    LET n == Len(X)
    IN  array([m \in 1..n |->
                  IDiv(CSum(array([k \in 1..n |->
                                     UMul(X[k], conj(Twiddle(n, (m - 1) * (k - 1))))])), n)])

\* np.real of an array
np_real(zs) == array([m \in 1..Len(zs) |-> real(zs[m])])

\* xrange(0, stop, step) for step >= 1
xrange(stop, step) ==
    LET count == IF stop > 0 THEN (stop + step - 1) \div step ELSE 0
    IN  array([i \in 1..count |-> (i - 1) * step])

\* the Python slice s[a:b] for 0 <= a
Slice(s, a, b) == SubSeq(s, a + 1, Min(b, Len(s)))

\* np.zeros(n)
zeros(n) == array([i \in 1..n |-> 0])

Ok(v) == [status |-> "ok", value |-> v]

Raise(e) == [status |-> e, value |-> <<>>]

None == [status |-> "none", value |-> <<>>]

(* ------------------------------------------------------------- basic.py *)

\* np.hamming(m)[n] for m - 1 in FFTSizes: 0.54 - 0.46 cos(2 pi n / (m - 1))
np_hamming(m) ==
    array([i \in 1..m |->
              (54 * One) \div 100 - ((46 * One) \div 100) * Twiddle(m - 1, i - 1)[1]])

\* basic.py cola_hamming: periodic Hamming window scaled by hop / win * 2 / 1.08
cola_hamming(win_size, hop_size) ==
    LET h == Slice(np_hamming(win_size + 1), 0, win_size)
    IN  array([i \in 1..win_size |->
                  ((((h[i] * One) \div ((108 * One) \div 100)) * hop_size) \div win_size) * 2])

\* a caller's rectangular window: hop / win in every coefficient
cola_rect(win_size, hop_size) ==
    array([i \in 1..win_size |-> (One * hop_size) \div win_size])

\* the call window(win_size, hop_size) of stft, window named by a string
CallWindow(window, win_size, hop_size) ==
    IF window = "cola_hamming" THEN cola_hamming(win_size, hop_size)
    ELSE cola_rect(win_size, hop_size)

\* the frame starts stft iterates over: xrange(0, len(c) - win_size, hop_size)
stft_starts(n, win_size, hop_size) == xrange(n - win_size, hop_size)

\* stft_frame without the multiplication by the window
stft_frame_unwindowed(c, t, w, win_size) ==
    LET seg == Slice(c, t, t + win_size)
    IN  array([i \in 1..Len(seg) |-> <<seg[i], 0>>])

\* c[t:t+win_size] * w, as the complex input of the FFT
stft_frame(c, t, w, win_size) ==
    LET seg == Slice(c, t, t + win_size)
    IN  array([i \in 1..Len(seg) |-> <<(seg[i] * w[i]) \div One, 0>>])

\* basic.py stft.  Signals are sequences of channels of one length, so the assertion
\* signal.ndim == 2 holds of every signal drawn.
stft(signal, window, win_size, hop_size) ==
    LET w == CallWindow(window, win_size, hop_size)
    IN  array([c \in 1..Len(signal) |->
            LET ts == stft_starts(Len(signal[c]), win_size, hop_size)
            IN  array([k \in 1..Len(ts) |->
                         fft(stft_frame(signal[c], ts[k], w, win_size))])])

\* the buffer istft allocates: (nframe - 1) * hop_size + nfbin samples
istft_length(nframe, nfbin, hop_size) == (nframe - 1) * hop_size + nfbin

\* istft_offset one hop late
istft_offset_late(t, hop_size) == (t + 1) * hop_size

\* the sample offset at which istft adds frame t (t counted from 0)
istft_offset(t, hop_size) == t * hop_size

\* row[a:b] += vals on one channel; the slice is clipped to the row as Python does
SliceAdd(row, a, b, vals) ==
    array([n \in 1..Len(row) |->
              IF a < n /\ n <= Min(b, Len(row)) THEN row[n] + vals[n - a] ELSE row[n]])

RECURSIVE istft_loop(_, _, _, _, _)
\* the for loop of istft from frame t (counted from 0) on
istft_loop(signal, tfa, hop_size, nfbin, t) ==
    IF t >= Len(tfa[1]) THEN Ok(signal)
    ELSE LET a == istft_offset(t, hop_size)
             b == a + nfbin
             n == Len(signal[1])
         IN  IF Min(b, n) - Min(a, n) # nfbin THEN Raise("ValueError")
             ELSE istft_loop(
                     array([c \in 1..Len(signal) |->
                         SliceAdd(signal[c], a, b, np_real(ifft(tfa[c][t + 1])))]),
                     tfa, hop_size, nfbin, t + 1)

\* basic.py istft; a tf that is not 3-D fails the unpacking of tf.shape
istft(tfa, hop_size) ==
    IF Len(tfa) = 0 THEN Raise("ValueError")
    ELSE IF Len(tfa[1]) = 0 THEN Raise("ValueError")
    ELSE LET nch == Len(tfa)
             nframe == Len(tfa[1])
             nfbin == Len(tfa[1][1])
         IN  istft_loop(array([c \in 1..nch |->
                                  zeros(istft_length(nframe, nfbin, hop_size))]),
                        tfa, hop_size, nfbin, 0)

\* an upsampling factor: its Python type and its value (fixed point)
Factor(type, val) == [type |-> type, val |-> val]

\* the default argument upsample=1
Factor1 == Factor("int", One)

czeros(n) == array([i \in 1..n |-> CZero])

\* upsample * array, upsample an int
Scale(k, zs) == array([i \in 1..Len(zs) |-> IMul(k, zs[i])])

\* the assertion of freq_upsample without its isinstance test
freq_upsample_assert_untyped(upsample) == upsample.val > One

\* assert isinstance(upsample, int) and upsample > 1
freq_upsample_assert(upsample) == upsample.type = "int" /\ upsample.val > One

\* the even branch with one zero too many
freq_upsample_even_long(s, k) ==
    LET l == Len(s)
        h == IntDiv(l, 2)
    IN  IF h >= l THEN Raise("IndexError")
        ELSE Ok(Scale(k, Slice(s, 0, h) \o <<IDiv(s[h + 1], 2)>> \o czeros(l * (k - 1))
                         \o <<IDiv(s[h + 1], 2)>> \o Slice(s, h + 1, l)))

\* freq_upsample, len(s) even: the bin s[h] is halved and placed on both sides of the
\* zeros; s[h] of an empty s is an IndexError
freq_upsample_even(s, k) ==
    LET l == Len(s)
        h == IntDiv(l, 2)
    IN  IF h >= l THEN Raise("IndexError")
        ELSE Ok(Scale(k, Slice(s, 0, h) \o <<IDiv(s[h + 1], 2)>> \o czeros(l * (k - 1) - 1)
                         \o <<IDiv(s[h + 1], 2)>> \o Slice(s, h + 1, l)))

\* the odd branch cutting at l / 2 instead of l / 2 + 1
freq_upsample_odd_early(s, k) ==
    LET l == Len(s)
        h == IntDiv(l, 2)
    IN  Ok(Scale(k, Slice(s, 0, h) \o czeros(l * (k - 1)) \o Slice(s, h, l)))

\* freq_upsample, len(s) odd
freq_upsample_odd(s, k) ==
    LET l == Len(s)
        h == IntDiv(l, 2) + 1
    IN  Ok(Scale(k, Slice(s, 0, h) \o czeros(l * (k - 1)) \o Slice(s, h, l)))

\* basic.py freq_upsample
freq_upsample(s, upsample) ==
    IF upsample.val = One THEN Ok(s)
    ELSE IF ~freq_upsample_assert(upsample) THEN Raise("AssertionError")
    ELSE IF Len(s) % 2 = 0 THEN freq_upsample_even(s, upsample.val \div One)
    ELSE freq_upsample_odd(s, upsample.val \div One)

(* ---------------------------------------------------------------- cc.py *)

\* cc.py _freq_upsample (a copy of basic.py freq_upsample)
_freq_upsample(s, upsample) ==
    IF upsample.val = One THEN Ok(s)
    ELSE IF ~(upsample.type = "int" /\ upsample.val > One) THEN Raise("AssertionError")
    ELSE LET k == upsample.val \div One
             l == Len(s)
         IN  IF l % 2 = 0
             THEN LET h == IntDiv(l, 2)
                  IN  IF h >= l THEN Raise("IndexError")
                      ELSE Ok(Scale(k, Slice(s, 0, h) \o <<IDiv(s[h + 1], 2)>>
                                       \o czeros(l * (k - 1) - 1)
                                       \o <<IDiv(s[h + 1], 2)>> \o Slice(s, h + 1, l)))
             ELSE LET h == IntDiv(l, 2) + 1
                  IN  Ok(Scale(k, Slice(s, 0, h) \o czeros(l * (k - 1)) \o Slice(s, h, l)))

\* the cross-power spectrum without the conjugate
cpsd_noconj(x, y) == array([k \in 1..Len(x) |-> CMul(x[k], y[k])])

\* gcc_phat: cpsd = x * y.conj()
cpsd(x, y) == array([k \in 1..Len(x) |-> CMul(x[k], conj(y[k]))])

\* gcc_phat: cpsd_phat = cpsd / np.abs(cpsd)
cpsd_phat(x, y) ==
    LET p == cpsd(x, y)
    IN  array([k \in 1..Len(p) |-> RDiv(p[k], CAbs(p[k]))])

\* cc.py gcc_phat.  A zero bin of cpsd divides 0 by 0 (nan in the source); the spectra
\* drawn have no zero bin.
gcc_phat(x, y, upsample) ==
    LET up == _freq_upsample(cpsd_phat(x, y), upsample)
    IN  IF up.status # "ok" THEN up ELSE Ok(np_real(ifft(up.value)))

\* a correlation function of the caller that returns the table cc whatever x and y
GivenCC(cc) == [name |-> "given", cc |-> cc]

GccPhat == [name |-> "gcc_phat", cc |-> <<>>]

\* the call cc_func(x, y)
CallCC(cc_func, x, y) ==
    IF cc_func.name = "gcc_phat" THEN gcc_phat(x, y, Factor1) ELSE Ok(cc_func.cc)

RECURSIVE argmax_from(_, _, _)
\* the first index (from 0) of the greatest element of cc among i.., best so far b
argmax_from(cc, i, b) ==
    IF i >= Len(cc) THEN b
    ELSE argmax_from(cc, i + 1, IF cc[i + 1] > cc[b + 1] THEN i ELSE b)

\* np.argmax of a non-empty array
np_argmax(cc) == argmax_from(cc, 1, 0)

\* the wraparound of tdoa with >= for >
tdoa_wrap_ge(peak_at, n) == IF peak_at >= IntDiv(n, 2) THEN peak_at - n ELSE peak_at

\* tdoa: if peak_at > len(cc) / 2: peak_at = peak_at - len(cc)
tdoa_wrap(peak_at, n) == IF peak_at > IntDiv(n, 2) THEN peak_at - n ELSE peak_at

\* no sample rate given
FsNone == [given |-> FALSE, hz |-> 1]

Fs(hz) == [given |-> TRUE, hz |-> hz]

\* cc.py tdoa; the result is the int peak_at, or the float peak_at / fs as num / den
tdoa(x, y, cc_func, fs) ==
    LET cc == CallCC(cc_func, x, y)
    IN  IF cc.status # "ok" THEN cc
        ELSE IF Len(cc.value) = 0 THEN Raise("ValueError")
        ELSE LET peak_at == tdoa_wrap(np_argmax(cc.value), Len(cc.value))
             IN  IF ~fs.given THEN Ok([kind |-> "int", num |-> peak_at, den |-> 1])
                 ELSE Ok([kind |-> "float", num |-> peak_at, den |-> fs.hz])

\* izip stopping one pair early
izip_short(tfx, tfy) ==
    array([k \in 1..(Min(Len(tfx), Len(tfy)) - 1) |-> <<tfx[k], tfy[k]>>])

\* itertools.izip(tfx, tfy): the pairs, up to the end of the shorter argument
izip(tfx, tfy) == array([k \in 1..Min(Len(tfx), Len(tfy)) |-> <<tfx[k], tfy[k]>>])

\* cc.py cc_across_time; an error of cc_func ends the comprehension
cc_across_time(tfx, tfy, cc_func) ==
    LET ps == izip(tfx, tfy)
        rs == array([k \in 1..Len(ps) |-> CallCC(cc_func, ps[k][1], ps[k][2])])
    IN  IF \E k \in 1..Len(rs) : rs[k].status # "ok"
        THEN rs[CHOOSE k \in 1..Len(rs) :
                  rs[k].status # "ok" /\ \A j \in 1..(k - 1) : rs[j].status = "ok"]
        ELSE Ok(array([k \in 1..Len(rs) |-> rs[k].value]))

\* the keys of pairwise_cc with x != y for x < y
pairwise_keys_unordered(nch) == { p \in (0..(nch - 1)) \X (0..(nch - 1)) : p[1] # p[2] }

\* pairwise_cc: for x in range(nch) for y in range(nch) if x < y
pairwise_keys(nch) == { p \in (0..(nch - 1)) \X (0..(nch - 1)) : p[1] < p[2] }

\* cc.py pairwise_cc: the dict (x, y) -> cc_across_time(tf[x], tf[y], cc_func)
pairwise_cc(tfa, cc_func) ==
    LET nch == Len(tfa)
        d == [p \in pairwise_keys(nch) |->
                cc_across_time(tfa[p[1] + 1], tfa[p[2] + 1], cc_func)]
    IN  IF \E p \in DOMAIN d : d[p].status # "ok"
        THEN d[CHOOSE p \in DOMAIN d : d[p].status # "ok"]
        ELSE Ok([p \in DOMAIN d |-> d[p].value])

(* ------------------------------------------------------- inputs of calls *)

SampleValues == {-One, One}

\* all 2-D signals (nch, n) with nch * n <= MaxSamples
Signals ==
    UNION { [1..nch -> [1..n -> SampleValues]] :
              <<nch, n>> \in { p \in (0..MaxSamples) \X (0..MaxSamples) :
                                 p[1] * p[2] <= MaxSamples } }

Windows == {"cola_hamming", "cola_rect"}

BinValues == {COne, <<0, One>>}

\* all time-frequency signals (nch, nframe, nfbin), each >= 1, with at most MaxBins bins
TFInputs ==
    UNION { [1..s[1] -> [1..s[2] -> [1..s[3] -> BinValues]]] :
              s \in { q \in (1..MaxBins) \X (1..MaxBins) \X FFTSizes :
                        q[1] * q[2] * q[3] <= MaxBins } }

InitStft ==
    /\ pc = "stft"
    /\ \E s \in Signals, w \in Windows, win \in FFTSizes, hop \in 1..MaxHop :
          args = [signal |-> s, window |-> w, win_size |-> win, hop_size |-> hop]
    /\ tf = None
    /\ ret = None
    /\ calls = <<>>

InitIstft ==
    /\ pc = "istft"
    /\ \E hop \in 1..MaxHop : args = [hop_size |-> hop]
    /\ \E t \in TFInputs : tf = Ok(t)
    /\ ret = None
    /\ calls = <<>>

\* all sequences over S of length lo..hi
SeqsOf(S, lo, hi) == UNION { [1..n -> S] : n \in lo..hi }

SpecBins == {COne, <<0, One>>, <<2 * One, -One>>}

Spectra == SeqsOf(SpecBins, 0, MaxSpecLen)

\* ints -1 .. MaxFactor and floats -1.0, -0.5, .. MaxFactor
Factors ==
    { Factor("int", k * One) : k \in (-1)..MaxFactor }
        \cup { Factor("float", (k * One) \div 2) : k \in (-2)..(2 * MaxFactor) }

InitUpsample ==
    /\ pc \in {"freq_upsample", "_freq_upsample"}
    /\ \E s \in Spectra, u \in Factors : args = [s |-> s, upsample |-> u]
    /\ tf = None
    /\ ret = None
    /\ calls = <<>>

CorrValues == {0, One, 2 * One}

CorrTables == SeqsOf(CorrValues, 0, MaxCorrLen)

SampleRates == {8000, 16000}

FsValues == {FsNone} \cup { Fs(hz) : hz \in SampleRates }

\* spectrum x delayed by d samples (circularly): bin k turned by exp(-2 pi i k d / n)
Delayed(x, d) == array([k \in 1..Len(x) |-> UMul(x[k], Twiddle(Len(x), (k - 1) * d))])

NonZeroBins == {COne, <<0, One>>, <<-One, One>>}

NonZeroSpectra == UNION { [1..n -> NonZeroBins] : n \in FFTSizes }

InitTdoa ==
    /\ pc = "tdoa"
    /\ \/ \E c \in CorrTables, fs \in FsValues :
             args = [x |-> <<>>, y |-> <<>>, cc_func |-> GivenCC(c), fs |-> fs]
       \/ \E x \in NonZeroSpectra, fs \in FsValues :
             \E d \in 0..(Len(x) - 1) :
                args = [x |-> x, y |-> Delayed(x, d), cc_func |-> GccPhat, fs |-> fs]
    /\ tf = None
    /\ ret = None
    /\ calls = <<>>

\* the spectra of a unit pulse of 4 samples at delay 0, 1, 2
PulseFrames == { Delayed(<<COne, COne, COne, COne>>, d) : d \in 0..2 }

InitCcAcrossTime ==
    /\ pc = "cc_across_time"
    /\ \E tfx \in SeqsOf(PulseFrames, 0, MaxFrames), tfy \in SeqsOf(PulseFrames, 0, MaxFrames) :
          args = [tfx |-> tfx, tfy |-> tfy, cc_func |-> GccPhat]
    /\ tf = None
    /\ ret = None
    /\ calls = <<>>

\* all (nch, nframe) time-frequency signals of pulse frames, nch * nframe <= MaxPairFrames
PairInputs ==
    UNION { [1..s[1] -> [1..s[2] -> PulseFrames]] :
              s \in { q \in (0..MaxPairFrames) \X (0..MaxPairFrames) :
                        q[1] * q[2] <= MaxPairFrames } }

InitPairwiseCc ==
    /\ pc = "pairwise_cc"
    /\ \E t \in PairInputs : args = [tf |-> t, cc_func |-> GccPhat]
    /\ tf = None
    /\ ret = None
    /\ calls = <<>>

Init ==
    \/ InitStft
    \/ InitIstft
    \/ InitUpsample
    \/ InitTdoa
    \/ InitCcAcrossTime
    \/ InitPairwiseCc

(* ---------------------------------------------------------------- calls *)

\* tf = stft(signal, window, win_size, hop_size)
Stft ==
    /\ pc = "stft"
    /\ tf' = Ok(stft(args.signal, args.window, args.win_size, args.hop_size))
    /\ ret' = tf'
    /\ pc' = "istft"
    /\ UNCHANGED <<args, calls>>

\* ret = istft(tf, hop_size)
Istft ==
    /\ pc = "istft"
    /\ ret' = istft(tf.value, args.hop_size)
    /\ pc' = "istft_done"
    /\ UNCHANGED <<args, tf, calls>>

\* ret = freq_upsample(s, upsample)
FreqUpsample ==
    /\ pc = "freq_upsample"
    /\ ret' = freq_upsample(args.s, args.upsample)
    /\ pc' = "freq_upsample_done"
    /\ UNCHANGED <<args, tf, calls>>

\* ret = _freq_upsample(s, upsample)
CcFreqUpsample ==
    /\ pc = "_freq_upsample"
    /\ ret' = _freq_upsample(args.s, args.upsample)
    /\ pc' = "_freq_upsample_done"
    /\ UNCHANGED <<args, tf, calls>>

\* ret = tdoa(x, y, cc_func, fs)
Tdoa ==
    /\ pc = "tdoa"
    /\ ret' = tdoa(args.x, args.y, args.cc_func, args.fs)
    /\ calls' = <<<<args.x, args.y>>>>
    /\ pc' = "tdoa_done"
    /\ UNCHANGED <<args, tf>>

\* ret = cc_across_time(tfx, tfy, cc_func)
CcAcrossTime ==
    /\ pc = "cc_across_time"
    /\ ret' = cc_across_time(args.tfx, args.tfy, args.cc_func)
    /\ calls' = izip(args.tfx, args.tfy)
    /\ pc' = "cc_across_time_done"
    /\ UNCHANGED <<args, tf>>

\* ret = pairwise_cc(tf, cc_func)
PairwiseCc ==
    /\ pc = "pairwise_cc"
    /\ ret' = pairwise_cc(args.tf, args.cc_func)
    /\ pc' = "pairwise_cc_done"
    /\ UNCHANGED <<args, tf, calls>>

Next ==
    \/ Stft
    \/ Istft
    \/ FreqUpsample
    \/ CcFreqUpsample
    \/ Tdoa
    \/ CcAcrossTime
    \/ PairwiseCc

Spec == Init /\ [][Next]_vars

(* ------------------------------------------------- stft / istft: claims *)

\* the call chain istft(stft(signal, ...), hop_size), as opposed to istft on a given tf
IsRoundTrip == "signal" \in DOMAIN args

\* COLA: the copies of window w shifted by multiples of hop sum to 1 at every sample
IsCOLA(w, hop) ==
    \A r \in 1..hop :
        CSum(array([j \in 1..Len(w) |-> IF (j - r) % hop = 0 THEN <<w[j], 0>> ELSE CZero]))
            = COne

\* sample n0 (from 0) lies under every window position k * hop that covers it, k any
\* integer: all of them are frames 0 .. nframe - 1 of the transform
FullyCovered(n0, nframe, win, hop) ==
    \A k \in (-win)..n0 :
        (k * hop <= n0 /\ n0 < k * hop + win) => (0 <= k /\ k < nframe)

\* the windows of a signal of n samples that fit completely, by their start
FittingStarts(n, win, hop) == { t \in 0..n : t % hop = 0 /\ t + win <= n }

RECURSIVE OverlapSum(_, _, _, _, _)
\* what frames t, t + 1, ... of one channel contribute to sample n0 of an overlap-add
OverlapSum(frames, hop, nfbin, n0, t) ==
    IF t >= Len(frames) THEN 0
    ELSE (IF t * hop <= n0 /\ n0 < t * hop + nfbin
          THEN np_real(ifft(frames[t + 1]))[n0 - t * hop + 1]
          ELSE 0) + OverlapSum(frames, hop, nfbin, n0, t + 1)

\* C1: with a window/hop pair that satisfies COLA, istft(stft(x)) returns x at every
\* sample that lies under the full set of overlapping frames; only boundary samples
\* differ or are missing.
C1_Reconstruction ==
    (pc = "istft_done" /\ IsRoundTrip
        /\ IsCOLA(CallWindow(args.window, args.win_size, args.hop_size), args.hop_size))
    => \A c \in 1..Len(args.signal) :
         \A n0 \in 0..(Len(args.signal[c]) - 1) :
            FullyCovered(n0, Len(tf.value[c]), args.win_size, args.hop_size)
            => /\ ret.status = "ok"
               /\ n0 < Len(ret.value[c])
               /\ ret.value[c][n0 + 1] = args.signal[c][n0 + 1]

\* C1 witness: a COLA Hamming window of 4 with hop 2, a sample under both of its
\* frames reconstructed, and the first sample (under one frame only) not reconstructed
C1_Witness ==
    /\ pc = "istft_done" /\ IsRoundTrip
    /\ args.window = "cola_hamming" /\ args.win_size = 4 /\ args.hop_size = 2
    /\ IsCOLA(cola_hamming(4, 2), 2)
    /\ ret.status = "ok"
    /\ FullyCovered(2, Len(tf.value[1]), 4, 2)
    /\ ret.value[1][3] = args.signal[1][3]
    /\ ret.value[1][1] # args.signal[1][1]

\* C2 (as claimed): stft yields a frame for exactly the windows that fit completely
\* (t + win_size <= n), in order, each of win_size bins.
C2_AllFittingFrames ==
    (pc \in {"istft", "istft_done"} /\ IsRoundTrip)
    => \A c \in 1..Len(args.signal) :
         LET w == CallWindow(args.window, args.win_size, args.hop_size)
             fits == FittingStarts(Len(args.signal[c]), args.win_size, args.hop_size)
         IN  /\ Len(tf.value[c]) = Cardinality(fits)
             /\ \A k \in 1..Len(tf.value[c]) :
                   /\ Len(tf.value[c][k]) = args.win_size
                   /\ tf.value[c][k] =
                        fft(stft_frame(args.signal[c], (k - 1) * args.hop_size, w,
                                       args.win_size))

\* C3: istft on (nch, nframe, nfbin) returns (nch, (nframe - 1) * hop + nfbin), every
\* frame lies inside the buffer, and each sample is the sum of the inverse transforms
\* of exactly the frames that cover it.
C3_OverlapAdd ==
    (pc = "istft_done" /\ Len(tf.value) >= 1 /\ Len(tf.value[1]) >= 1)
    => LET nch == Len(tf.value)
           nframe == Len(tf.value[1])
           nfbin == Len(tf.value[1][1])
           hop == args.hop_size
           size == (nframe - 1) * hop + nfbin
       IN  /\ ret.status = "ok"
           /\ Len(ret.value) = nch
           /\ \A c \in 1..nch :
                /\ Len(ret.value[c]) = size
                /\ \A t \in 0..(nframe - 1) :
                      t * hop + nfbin <= Len(ret.value[c])
                /\ \A n0 \in 0..(size - 1) :
                      ret.value[c][n0 + 1] = OverlapSum(tf.value[c], hop, nfbin, n0, 0)

\* C3 witness: two frames of 4 bins overlapping by one sample, the shared sample
\* receiving a non-zero contribution from each
C3_Witness ==
    /\ pc = "istft_done" /\ ~IsRoundTrip
    /\ Len(tf.value[1]) = 2 /\ Len(tf.value[1][1]) = 4 /\ args.hop_size = 3
    /\ ret.status = "ok" /\ Len(ret.value[1]) = 7
    /\ np_real(ifft(tf.value[1][1]))[4] # 0
    /\ np_real(ifft(tf.value[1][2]))[1] # 0
    /\ ret.value[1][4] = np_real(ifft(tf.value[1][1]))[4] + np_real(ifft(tf.value[1][2]))[1]

(* ------------------------------------------------- freq_upsample: claims *)

UpsampleDone == pc \in {"freq_upsample_done", "_freq_upsample_done"}

\* the factor is an int greater than 1
IsIntFactor(u) == u.type = "int" /\ u.val > One

\* C4: for an even-length spectrum of l >= 2 bins and an integer factor k > 1 the result
\* has l * k bins, bins 0 .. l/2 - 1 are k * s, the Nyquist bin is halved into index l/2
\* and index l * k - l/2, and every bin strictly between the two is zero.
C4_EvenLayout ==
    (UpsampleDone /\ Len(args.s) >= 2 /\ Len(args.s) % 2 = 0 /\ IsIntFactor(args.upsample))
    => LET s == args.s
           k == args.upsample.val \div One
           l == Len(s)
           h == l \div 2
           out == ret.value
       IN  /\ ret.status = "ok"
           /\ Len(out) = l * k
           /\ \A i \in 0..(h - 1) : out[i + 1] = IMul(k, s[i + 1])
           /\ out[h + 1] = IDiv(IMul(k, s[h + 1]), 2)
           /\ out[l * k - h + 1] = IDiv(IMul(k, s[h + 1]), 2)
           /\ \A i \in (h + 1)..(l * k - h - 1) : out[i + 1] = CZero

\* C4 witness: 4 bins upsampled by 3 by basic.py's function, the Nyquist bin s[2] at
\* indices 2 and 10 of the 12
C4_Witness ==
    /\ pc = "freq_upsample_done"
    /\ Len(args.s) = 4 /\ args.upsample = Factor("int", 3 * One)
    /\ ret.status = "ok" /\ Len(ret.value) = 12
    /\ args.s[3] = <<2 * One, -One>>
    /\ ret.value[3] = <<3 * One, (-3 * One) \div 2>>
    /\ ret.value[11] = ret.value[3]

\* C8: a factor equal to 1 returns s itself; any factor that is neither 1 nor an int
\* greater than 1 (0, negative, not an int) fails the assertion and returns nothing.
C8_FactorPolicy ==
    UpsampleDone
    => /\ args.upsample.val = One => ret = Ok(args.s)
       /\ (args.upsample.val # One /\ ~IsIntFactor(args.upsample))
             => ret = Raise("AssertionError")

\* C8 witness: cc.py's copy refusing the float 2.5
C8_Witness ==
    /\ pc = "_freq_upsample_done"
    /\ args.upsample = Factor("float", (5 * One) \div 2)
    /\ Len(args.s) = 3
    /\ ret = Raise("AssertionError")

\* C10: for an odd-length spectrum of l >= 1 bins and an integer factor k > 1 the result
\* has l * k bins, bins 0 .. (l-1)/2 are k * s, bin l * k - m is k * s[l - m] for
\* 1 <= m <= (l-1)/2, every bin in between is zero, and no bin is split.
C10_OddLayout ==
    (UpsampleDone /\ Len(args.s) % 2 = 1 /\ IsIntFactor(args.upsample))
    => LET s == args.s
           k == args.upsample.val \div One
           l == Len(s)
           m2 == (l - 1) \div 2
           out == ret.value
       IN  /\ ret.status = "ok"
           /\ Len(out) = l * k
           /\ \A i \in 0..m2 : out[i + 1] = IMul(k, s[i + 1])
           /\ \A m \in 1..m2 : out[l * k - m + 1] = IMul(k, s[l - m + 1])
           /\ \A i \in (m2 + 1)..(l * k - m2 - 1) : out[i + 1] = CZero

\* C10 witness: 3 bins upsampled by 2 by cc.py's copy: s0, s1, three zeros, s2
C10_Witness ==
    /\ pc = "_freq_upsample_done"
    /\ Len(args.s) = 3 /\ args.upsample = Factor("int", 2 * One)
    /\ args.s[2] # args.s[3]
    /\ ret = Ok(<<IMul(2, args.s[1]), IMul(2, args.s[2]), CZero, CZero, CZero,
                  IMul(2, args.s[3])>>)

(* ------------------------------------------------------------ cc: claims *)

\* the correlation cc_func returned to tdoa
TdoaCC == CallCC(args.cc_func, args.x, args.y).value

\* the peak of cc: the first index (from 0) holding the greatest value
PeakOf(cc) ==
    CHOOSE p \in 0..(Len(cc) - 1) :
        /\ \A j \in 0..(Len(cc) - 1) : cc[j + 1] <= cc[p + 1]
        /\ \A j \in 0..(p - 1) : cc[j + 1] < cc[p + 1]

\* C5: for a correlation of N >= 1 lags with its peak at p, tdoa returns p when p is at
\* or before the midpoint and p - N past it, as an int without fs and divided by fs with
\* it, and the value lies in (-N/2, N/2] samples, (-N/(2 fs), N/(2 fs)] seconds.
C5_TdoaRange ==
    (pc = "tdoa_done" /\ Len(TdoaCC) >= 1)
    => LET n == Len(TdoaCC)
           p == PeakOf(TdoaCC)
           f == IF args.fs.given THEN args.fs.hz ELSE 1
           r == ret.value
       IN  /\ ret.status = "ok"
           /\ r.num = IF 2 * p <= n THEN p ELSE p - n
           /\ r.kind = IF args.fs.given THEN "float" ELSE "int"
           /\ r.den = f
           /\ -n * r.den < 2 * f * r.num
           /\ 2 * f * r.num <= n * r.den

\* C5 witness: 4 lags, the peak at the midpoint 2, returned as 2 / 16000
C5_Witness ==
    /\ pc = "tdoa_done"
    /\ args.cc_func = GivenCC(<<0, One, 2 * One, One>>)
    /\ args.fs = Fs(16000)
    /\ ret = Ok([kind |-> "float", num |-> 2, den |-> 16000])

\* C9: for x with no zero bin, the phase transform of x * conj(x) is 1 in every bin,
\* gcc_phat(x, x) has its maximum at index 0 and tdoa(x, x, gcc_phat) is 0.
C9_SelfCorrelation ==
    (pc = "tdoa_done" /\ args.cc_func = GccPhat /\ args.x = args.y
        /\ \A k \in 1..Len(args.x) : args.x[k] # CZero)
    => LET cc == gcc_phat(args.x, args.x, Factor1)
       IN  /\ \A k \in 1..Len(args.x) : cpsd_phat(args.x, args.x)[k] = COne
           /\ cc.status = "ok"
           /\ \A n \in 2..Len(cc.value) : cc.value[n] < cc.value[1]
           /\ ret.status = "ok"
           /\ ret.value.num = 0

\* C9 witness: a 4-bin x with bins of different phase and magnitude, correlated with
\* itself
C9_Witness ==
    /\ pc = "tdoa_done" /\ args.cc_func = GccPhat
    /\ args.x = <<COne, <<0, One>>, <<-One, One>>, <<0, One>>>>
    /\ args.y = args.x
    /\ ~args.fs.given
    /\ ret = Ok([kind |-> "int", num |-> 0, den |-> 1])

\* C7: cc_across_time returns min(m, n) rows, row k is cc_func(tfx[k], tfy[k]), cc_func
\* is passed those pairs only, and a length mismatch raises nothing.
C7_Truncation ==
    pc = "cc_across_time_done"
    => LET m == Len(args.tfx)
           n == Len(args.tfy)
           least == IF m <= n THEN m ELSE n
       IN  /\ ret.status = "ok"
           /\ Len(ret.value) = least
           /\ \A k \in 1..least :
                 ret.value[k] = CallCC(args.cc_func, args.tfx[k], args.tfy[k]).value
           /\ Len(calls) = least
           /\ \A k \in 1..least : calls[k] = <<args.tfx[k], args.tfy[k]>>

\* C7 witness: 3 frames against 1, one row, whose value depends on the argument order
C7_Witness ==
    /\ pc = "cc_across_time_done"
    /\ Len(args.tfx) = 3 /\ Len(args.tfy) = 1
    /\ ret.status = "ok" /\ Len(ret.value) = 1 /\ Len(calls) = 1
    /\ ret.value[1] = <<0, One, 0, 0>>
    /\ gcc_phat(args.tfy[1], args.tfx[1], Factor1).value = <<0, 0, 0, One>>

\* C6: pairwise_cc returns a mapping whose keys are exactly the pairs (i, j) with
\* 0 <= i < j < nch, nch * (nch - 1) / 2 of them, and whose value at (i, j) is
\* cc_across_time(tf[i], tf[j], cc_func).
C6_PairKeys ==
    pc = "pairwise_cc_done"
    => LET nch == Len(args.tf)
           chans == 0..(nch - 1)
       IN  /\ ret.status = "ok"
           /\ \A p \in DOMAIN ret.value : p[1] \in chans /\ p[2] \in chans /\ p[1] < p[2]
           /\ \A i \in chans : \A j \in chans : i < j => <<i, j>> \in DOMAIN ret.value
           /\ 2 * Cardinality(DOMAIN ret.value) = nch * (nch - 1)
           /\ \A p \in DOMAIN ret.value :
                 /\ Len(ret.value[p]) = Len(args.tf[p[1] + 1])
                 /\ \A k \in 1..Len(ret.value[p]) :
                       ret.value[p][k] =
                          CallCC(args.cc_func, args.tf[p[1] + 1][k], args.tf[p[2] + 1][k]).value

\* C6 witness: 3 channels of 2 frames, the 3 pairs, and a value that differs from the one
\* of the swapped pair
C6_Witness ==
    /\ pc = "pairwise_cc_done"
    /\ Len(args.tf) = 3 /\ Len(args.tf[1]) = 2
    /\ ret.status = "ok"
    /\ DOMAIN ret.value = {<<0, 1>>, <<0, 2>>, <<1, 2>>}
    /\ ret.value[<<0, 1>>] # cc_across_time(args.tf[2], args.tf[1], args.cc_func).value
    /\ ret.value[<<0, 2>>] = cc_across_time(args.tf[1], args.tf[3], args.cc_func).value

====
